---- MODULE Spec2Model ----
(***************************************************************************)
(* Model of the Whisper transcription micro-service (src/app/app.py).      *)
(*                                                                         *)
(* A path is a sequence of tokens.  "/" and "." are tokens of their own,   *)
(* every other token is a run of characters holding neither, so that       *)
(* os.path.join, os.path.splitext and str.lower are computed on the same   *)
(* structure the Python functions work on.  The file system maps           *)
(* canonical paths (sequences of components) to file contents.             *)
(***************************************************************************)
EXTENDS Integers, Sequences, FiniteSets, TLC

(* Number of requests the clients send in one run. *)
NumReqs == 2

Reqs == 1..NumReqs
NoReq == 0

VARIABLES
    files,      \* the file system: canonical path -> content
    running,    \* the request whose handler holds the event loop, or NoReq
    req         \* per request: position in the handler and its locals

vars == <<files, running, req>>

----------------------------------------------------------------------------
(* Configuration *)

AUDIO_DIR == <<"/", "data", "/", "audio">>
WAV_DIR == <<"/", "data", "/", "wav">>

(* The supported set with .txt let in. *)
SupportedWithTxt ==
    { <<".", "mp3">>, <<".", "wav">>, <<".", "ogg">>, <<".", "txt">>,
      <<".", "m4a">>, <<".", "webm">>, <<".", "oga">> }

SUPPORTED_AUDIO_EXT ==
    { <<".", "mp3">>, <<".", "wav">>, <<".", "ogg">>,
      <<".", "m4a">>, <<".", "webm">>, <<".", "oga">> }

----------------------------------------------------------------------------
(* posixpath and str functions *)

(* str.rfind, 1-based; 0 when c does not occur. *)
rfind(p, c) ==
    LET hits == { i \in 1..Len(p) : p[i] = c }
    IN  IF hits = {} THEN 0 ELSE CHOOSE i \in hits : \A j \in hits : j <= i

(* os.path.join(a, b) *)
join(a, b) ==
    IF b # <<>> /\ b[1] = "/" THEN b
    ELSE IF a = <<>> \/ a[Len(a)] = "/" THEN a \o b
    ELSE a \o <<"/">> \o b

(* os.path.splitext(p): <<root, ext>>.  The extension starts at the last   *)
(* dot of the last component, unless only dots precede it there.           *)
splitext(p) ==
    LET sepIndex == rfind(p, "/")
        dotIndex == rfind(p, ".")
    IN  IF dotIndex > sepIndex
           /\ \E k \in (sepIndex + 1)..(dotIndex - 1) : p[k] # "."
        THEN <<SubSeq(p, 1, dotIndex - 1), SubSeq(p, dotIndex, Len(p))>>
        ELSE <<p, <<>> >>

lowerToken(t) ==
    CASE t = "WAV" -> "wav"
      [] t = "MP3" -> "mp3"
      [] OTHER -> t

(* str.lower *)
lower(s) == [i \in 1..Len(s) |-> lowerToken(s[i])]

----------------------------------------------------------------------------
(* The file system *)

NoPath == <<"ENOENT">>

(* The components of a path: the token runs between the separators. *)
RECURSIVE Components(_)
Components(p) ==
    IF p = <<>> THEN << <<>> >>
    ELSE LET rest == Components(Tail(p))
         IN  IF Head(p) = "/" THEN << <<>> >> \o rest
             ELSE << <<Head(p)>> \o Head(rest) >> \o Tail(rest)

(* Directories.  The service creates none after start-up, where it makes   *)
(* sure WAV_DIR exists.                                                    *)
Dirs ==
    { <<>>,
      << <<"data">> >>,
      << <<"data">>, <<"audio">> >>,
      << <<"data">>, <<"wav">> >>,
      << <<"data">>, <<"audio">>, <<"sub">> >> }

(* Path walk of the kernel from directory cur: every component is looked   *)
(* up in a directory, ".." is the parent, "" and "." stay.                 *)
RECURSIVE Walk(_, _)
Walk(cur, comps) ==
    IF comps = <<>> THEN cur
    ELSE IF cur \notin Dirs THEN NoPath
    ELSE LET c == Head(comps)
         IN  IF c = <<>> \/ c = <<".">> THEN Walk(cur, Tail(comps))
             ELSE IF c = <<".", ".">>
                  THEN Walk(IF cur = <<>> THEN cur
                            ELSE SubSeq(cur, 1, Len(cur) - 1), Tail(comps))
             ELSE Walk(Append(cur, c), Tail(comps))

(* The canonical path an absolute path names, NoPath if the walk fails. *)
Resolve(p) == Walk(<<>>, Components(p))

(* os.path.exists(p) in the place of os.path.isfile(p): directories pass. *)
existsNotIsfile(fs, p) == Resolve(p) \in DOMAIN fs \cup Dirs

(* os.path.isfile(p) *)
isfile(fs, p) == Resolve(p) \in DOMAIN fs

(* Whether canonical path q lies inside the directory named by dir. *)
Inside(q, dir) ==
    LET d == Resolve(dir)
    IN  /\ q # NoPath
        /\ Len(q) > Len(d)
        /\ SubSeq(q, 1, Len(d)) = d

Garbage == "garbage"

(* Content of a file: the speech it carries (Garbage when it is not        *)
(* decodable audio) and the request that wrote it (NoReq: it was there     *)
(* before the service started).                                            *)
Content(a, r) == [audio |-> a, by |-> r]

(* What a read of path p yields: the content of the file, nothing          *)
(* decodable when p names no regular file.                                 *)
ReadFile(fs, p) ==
    IF Resolve(p) \in DOMAIN fs THEN fs[Resolve(p)] ELSE Content(Garbage, NoReq)

AudioPath(name) == << <<"data">>, <<"audio">> >> \o name

InitFiles ==
    (AudioPath(<< <<"a", ".", "mp3">> >>) :> Content("speechA", NoReq))
 @@ (AudioPath(<< <<"a", ".", "ogg">> >>) :> Content("speechO", NoReq))
 @@ (AudioPath(<< <<"a", ".", "wav">> >>) :> Content("speechW", NoReq))
 @@ (AudioPath(<< <<"b", ".", "WAV">> >>) :> Content("speechB", NoReq))
 @@ (AudioPath(<< <<"bad", ".", "m4a">> >>) :> Content(Garbage, NoReq))
 @@ (AudioPath(<< <<"bad", ".", "wav">> >>) :> Content(Garbage, NoReq))
 @@ (AudioPath(<< <<"c", ".", "txt">> >>) :> Content("speechC", NoReq))
 @@ (AudioPath(<< <<"sub">>, <<"e", ".", "webm">> >>) :> Content("speechE", NoReq))

(* The filenames the clients send. *)
Filenames ==
    { <<"a", ".", "mp3">>,
      <<"a", ".", "ogg">>,
      <<"a", ".", "wav">>,
      <<"b", ".", "WAV">>,
      <<"bad", ".", "m4a">>,
      <<"bad", ".", "wav">>,
      <<"c", ".", "txt">>,
      <<"zz", ".", "txt">>,
      <<"sub">>,
      <<"sub", "/", "e", ".", "webm">>,
      <<".", ".", "/", "wav", "/", "a", ".", "wav">>,
      <<".", ".", "/", "audio", "/", "a", ".", "mp3">>,
      <<"/", "data", "/", "audio", "/", "a", ".", "ogg">> }

----------------------------------------------------------------------------
(* Collaborators *)

(* The language Whisper detects in a speech. *)
Language(a) ==
    CASE a = "speechA" -> "en"
      [] a = "speechO" -> "he"
      [] a = "speechW" -> "fr"
      [] OTHER -> "de"

(* model.transcribe(wav_path) on decodable audio *)
transcribe(c) == [text |-> c.audio, language |-> Language(c.audio)]

----------------------------------------------------------------------------
(* Responses *)

NoResponse == [status |-> 0, detail |-> <<>>, body |-> <<>>]

HTTPException(status_code, detail) ==
    [status |-> status_code, detail |-> detail, body |-> <<>>]

FileNotFound == HTTPException(404, <<"File not found">>)

UnsupportedFormat(ext) ==
    HTTPException(400, <<"Unsupported file format: ", ext>>)

(* The conversion handler raising with the wrong status. *)
ConversionFailedAsClientError(e) ==
    HTTPException(400, <<"Audio conversion failed: ", e>>)

ConversionFailed(e) ==
    HTTPException(500, <<"Audio conversion failed: ", e>>)

(* The transcription handler raising the detail of the conversion one. *)
TranscriptionFailedMislabelled(e) ==
    HTTPException(500, <<"Audio conversion failed: ", e>>)

TranscriptionFailed(e) ==
    HTTPException(500, <<"Transcription failed: ", e>>)

Success(result) ==
    [status |-> 200, detail |-> <<>>,
     body |-> <<result.text, result.language>>]

----------------------------------------------------------------------------
(* Requests *)

NoFile == Content("absent", NoReq)

Idle ==
    [pc |-> "idle", filename |-> <<>>, filepath |-> <<>>, ext |-> <<>>,
     wav_path |-> <<>>, audio |-> "none", response |-> NoResponse,
     \* history: the steps taken, the step that failed, the source file as
     \* step 1 found it, what inference read, the paths read and written,
     \* the requests in flight together with this one
     log |-> <<>>, failed |-> "none", found |-> NoFile, heard |-> NoFile,
     readp |-> {}, wrote |-> {}, peers |-> {}]

InFlight(r) == req[r].pc \notin {"idle", "done"}

Init ==
    /\ files = InitFiles
    /\ running = NoReq
    /\ req = [r \in Reqs |-> Idle]

(* A request arrives; its body is parsed into an AudioFileRequest and the  *)
(* call of the handler waits for the event loop.  Requests are numbered in *)
(* the order of their arrival.                                             *)
Receive(r, fn) ==
    /\ req[r].pc = "idle"
    /\ \A q \in 1..(r - 1) : req[q].pc # "idle"
    /\ LET others == { q \in Reqs : InFlight(q) }
       IN  req' = [q \in Reqs |->
                IF q = r THEN [Idle EXCEPT !.pc = "queued", !.filename = fn,
                                           !.peers = others]
                ELSE IF q \in others
                     THEN [req[q] EXCEPT !.peers = @ \cup {r}]
                ELSE req[q]]
    /\ UNCHANGED <<files, running>>

(* The handler is a coroutine without an await: once the event loop calls  *)
(* it, it runs to its return or raise before the loop calls another.       *)
LoopFree == running = NoReq

Dispatch(r) ==
    /\ req[r].pc = "queued"
    /\ LoopFree
    /\ running' = r
    /\ req' = [req EXCEPT ![r].pc = "resolve",
                          ![r].filepath = join(AUDIO_DIR, req[r].filename)]
    /\ UNCHANGED files

(* The handler of r ends with a response. *)
Finish(r, step, resp, rest) ==
    /\ req' = [req EXCEPT ![r] =
                 [rest EXCEPT !.pc = "done", !.response = resp,
                              !.log = Append(@, step),
                              !.failed = IF resp.status = 200 THEN "none"
                                         ELSE step]]
    /\ running' = NoReq

(* The handler of r goes on with the step at next. *)
Continue(r, step, next, rest) ==
    /\ req' = [req EXCEPT ![r] =
                 [rest EXCEPT !.pc = next, !.log = Append(@, step)]]
    /\ running' = r

(* 1. File exists? *)
ResolvePath(r) ==
    /\ running = r
    /\ req[r].pc = "resolve"
    /\ IF ~isfile(files, req[r].filepath)
       THEN Finish(r, "resolve", FileNotFound, req[r])
       ELSE Continue(r, "resolve", "classify",
                     [req[r] EXCEPT !.found = ReadFile(files, req[r].filepath)])
    /\ UNCHANGED files

(* The branch of step 3 taken for every extension. *)
AlwaysConvert(ext) == TRUE

(* 3. Convert to WAV when required: if ext != ".wav" *)
NeedsConversion(ext) == ext # <<".", "wav">>

(* 2. Supported format?  and the choice of wav_path of step 3. *)
ClassifyFormat(r) ==
    /\ running = r
    /\ req[r].pc = "classify"
    /\ LET ext == lower(splitext(req[r].filename)[2])
           root == splitext(req[r].filename)[1]
           me == [req[r] EXCEPT !.ext = ext]
       IN  IF ext \notin SUPPORTED_AUDIO_EXT
           THEN Finish(r, "classify", UnsupportedFormat(ext), me)
           ELSE IF NeedsConversion(ext)
           THEN Continue(r, "classify", "decode",
                    [me EXCEPT !.wav_path = join(WAV_DIR, root \o <<".", "wav">>)])
           ELSE Continue(r, "classify", "transcribe",
                    [me EXCEPT !.wav_path = req[r].filepath])
    /\ UNCHANGED files

(* 3. audio = AudioSegment.from_file(filepath) *)
Decode(r) ==
    /\ running = r
    /\ req[r].pc = "decode"
    /\ LET src == ReadFile(files, req[r].filepath)
           me == [req[r] EXCEPT !.readp = @ \cup {Resolve(req[r].filepath)}]
       IN  \E oops \in BOOLEAN :
             IF src.audio = Garbage
             THEN Finish(r, "decode", ConversionFailed("decoding failed"), me)
             ELSE IF oops
             THEN Finish(r, "decode", ConversionFailed("ffmpeg failed"), me)
             ELSE Continue(r, "decode", "export", [me EXCEPT !.audio = src.audio])
    /\ UNCHANGED files

(* 3. audio.export(wav_path, format="wav") *)
Export(r) ==
    /\ running = r
    /\ req[r].pc = "export"
    /\ LET target == Resolve(req[r].wav_path)
       IN  IF target = NoPath \/ target \in Dirs
           THEN /\ Finish(r, "export", ConversionFailed("cannot open"), req[r])
                /\ UNCHANGED files
           ELSE \E oops \in BOOLEAN :
                  IF oops
                  THEN /\ Finish(r, "export",
                                 ConversionFailed("permission denied"), req[r])
                       /\ UNCHANGED files
                  ELSE /\ Continue(r, "export", "transcribe",
                                   [req[r] EXCEPT !.wrote = @ \cup {target}])
                       /\ files' = [p \in DOMAIN files \cup {target} |->
                                      IF p = target
                                      THEN Content(req[r].audio, r)
                                      ELSE files[p]]

(* 4. result = model.transcribe(wav_path) *)
Transcribe(r) ==
    /\ running = r
    /\ req[r].pc = "transcribe"
    /\ LET wav == ReadFile(files, req[r].wav_path)
           me == [req[r] EXCEPT !.readp = @ \cup {Resolve(req[r].wav_path)},
                                !.heard = wav]
       IN  \E oops \in BOOLEAN :
             IF wav.audio = Garbage
             THEN Finish(r, "transcribe",
                         TranscriptionFailed("failed to load audio"), me)
             ELSE IF oops
             THEN Finish(r, "transcribe",
                         TranscriptionFailed("out of memory"), me)
             ELSE Finish(r, "transcribe", Success(transcribe(wav)), me)
    /\ UNCHANGED files

Next ==
    \/ \E r \in Reqs, fn \in Filenames : Receive(r, fn)
    \/ \E r \in Reqs : Dispatch(r)
    \/ \E r \in Reqs : ResolvePath(r)
    \/ \E r \in Reqs : ClassifyFormat(r)
    \/ \E r \in Reqs : Decode(r)
    \/ \E r \in Reqs : Export(r)
    \/ \E r \in Reqs : Transcribe(r)

Spec == Init /\ [][Next]_vars

----------------------------------------------------------------------------
(* Vocabulary of the properties *)

Done(r) == req[r].pc = "done"

(* The supported extensions as the specification lists them. *)
ListedExts ==
    { <<".", e>> : e \in {"mp3", "wav", "ogg", "m4a", "webm", "oga"} }

(* The lower-cased extension of the filename of r. *)
ExtOf(r) == lower(splitext(req[r].filename)[2])

Kind(r) == IF req[r].response.detail = <<>> THEN "none"
           ELSE req[r].response.detail[1]

Has(r, step) == \E i \in 1..Len(req[r].log) : req[r].log[i] = step

IsPrefix(s, t) == Len(s) <= Len(t) /\ SubSeq(t, 1, Len(s)) = s

ConvertingRun == <<"resolve", "classify", "decode", "export", "transcribe">>
PlainRun == <<"resolve", "classify", "transcribe">>

(* C1: the steps of a request run in the order resolve, classify,          *)
(* normalize (only for an extension other than .wav), transcribe, each at  *)
(* most once; the handler stops at the first failing step, and the         *)
(* response is 404 iff resolution failed, 400 iff classification failed,   *)
(* 500 conversion iff conversion failed, 500 transcription iff inference   *)
(* failed, and 200 with text and language otherwise.                       *)
C1_Pipeline ==
    \A r \in Reqs :
      LET q == req[r]
          wav == ExtOf(r) = <<".", "wav">>
      IN  /\ IsPrefix(q.log, ConvertingRun) \/ IsPrefix(q.log, PlainRun)
          /\ Has(r, "decode") => ~wav
          /\ q.log = PlainRun => wav
          /\ q.failed # "none" =>
                Done(r) /\ q.log # <<>> /\ q.log[Len(q.log)] = q.failed
          /\ q.failed = "resolve" <=> (q.log # <<>> /\ q.found = NoFile)
          /\ q.failed = "classify" <=>
                (Len(q.log) >= 2 /\ ExtOf(r) \notin ListedExts)
          /\ Done(r) =>
               /\ q.response.status \in {200, 400, 404, 500}
               /\ (q.response.status = 404 /\ Kind(r) = "File not found")
                     <=> q.failed = "resolve"
               /\ (q.response.status = 400
                     /\ q.response.detail = <<"Unsupported file format: ", ExtOf(r)>>)
                     <=> q.failed = "classify"
               /\ (q.response.status = 500 /\ Kind(r) = "Audio conversion failed: ")
                     <=> q.failed \in {"decode", "export"}
               /\ (q.response.status = 500 /\ Kind(r) = "Transcription failed: ")
                     <=> q.failed = "transcribe"
               /\ q.response.status = 200 <=> q.failed = "none"
               /\ q.response.status = 200 =>
                     /\ Has(r, "transcribe")
                     /\ q.response.body = <<q.heard.audio, Language(q.heard.audio)>>
               /\ q.response.status # 200 => q.response.body = <<>>

(* A request was answered 500 'Audio conversion failed' right after the    *)
(* decoder raised, without export or inference. *)
C1_Witness ==
    \E r \in Reqs :
      /\ Done(r)
      /\ req[r].log = <<"resolve", "classify", "decode">>
      /\ req[r].response.status = 500
      /\ Kind(r) = "Audio conversion failed: "

(* C2: a filename that does not name an existing regular file under the    *)
(* audio directory is answered 404 'File not found' at step 1, whatever    *)
(* its extension.                                                          *)
C2_MissingIsNotFound ==
    [][\A r \in Reqs :
         (/\ req[r].pc = "resolve"
          /\ req'[r].pc # "resolve"
          /\ Resolve(join(AUDIO_DIR, req[r].filename)) \notin DOMAIN files)
         => (/\ req'[r].pc = "done"
             /\ req'[r].response = FileNotFound
             /\ req'[r].log = <<"resolve">>)]_vars

(* A missing file with an unsupported extension was answered 404. *)
C2_Witness ==
    \E r \in Reqs :
      /\ Done(r)
      /\ req[r].filename = <<"zz", ".", "txt">>
      /\ req[r].response.status = 404

(* C3 as stated: an extension outside the supported set is answered 400,   *)
(* whether the file exists or not.                                         *)
C3_Original ==
    \A r \in Reqs :
      (Done(r) /\ ExtOf(r) \notin ListedExts) => req[r].response.status = 400

(* C3 amended: an extension outside the supported set is answered 400      *)
(* 'Unsupported file format: <ext>' when the file exists, and 404 when it  *)
(* does not.                                                               *)
C3_Amended ==
    \A r \in Reqs :
      (Done(r) /\ ExtOf(r) \notin ListedExts) =>
         IF req[r].found # NoFile
         THEN req[r].response =
                 HTTPException(400, <<"Unsupported file format: ", ExtOf(r)>>)
         ELSE req[r].response.status = 404

(* An existing file with an unsupported extension was answered 400. *)
C3_Witness ==
    \E r \in Reqs :
      /\ Done(r)
      /\ req[r].filename = <<"c", ".", "txt">>
      /\ req[r].found # NoFile
      /\ req[r].response.status = 400

(* C4: a request that got past step 1 has a resolved path inside           *)
(* AUDIO_DIR.                                                              *)
C4_PathSafety ==
    \A r \in Reqs :
      (req[r].pc \in {"classify", "decode", "export", "transcribe"}
         \/ (Done(r) /\ req[r].failed # "resolve"))
      => Inside(Resolve(req[r].filepath), AUDIO_DIR)

(* C5: for an existing file with extension .wav no conversion is done: the *)
(* decoder and the encoder are not called, the request writes no file, and *)
(* inference gets the resolved input path.                                 *)
C5_WavUntouched ==
    /\ [](\A r \in Reqs :
            (ExtOf(r) = <<".", "wav">> /\ req[r].found # NoFile) =>
               /\ ~Has(r, "decode") /\ ~Has(r, "export")
               /\ req[r].wrote = {}
               /\ req[r].audio = "none"
               /\ Has(r, "classify") => req[r].wav_path = req[r].filepath
               /\ Has(r, "transcribe") =>
                     req[r].readp = {Resolve(join(AUDIO_DIR, req[r].filename))})
    /\ [][\A r \in Reqs :
            (running = r /\ ExtOf(r) = <<".", "wav">>) => files' = files]_vars

(* A .WAV file was transcribed. *)
C5_Witness ==
    \E r \in Reqs :
      /\ Done(r)
      /\ req[r].filename = <<"b", ".", "WAV">>
      /\ req[r].response.status = 200
      /\ req[r].log = PlainRun

(* C6: after a successful conversion the file <basename>.wav exists in the *)
(* WAV output directory and is the file inference reads.                   *)
C6_ConvertedInWavDir ==
    \A r \in Reqs :
      (Has(r, "export") /\ req[r].failed # "export") =>
         LET target == Resolve(req[r].wav_path)
             root == splitext(req[r].filename)[1]
         IN  /\ Inside(target, WAV_DIR)
             /\ target \in DOMAIN files
             /\ target = Resolve(WAV_DIR \o <<"/">> \o root \o <<".", "wav">>)
             /\ Has(r, "transcribe") =>
                   (target \in req[r].readp /\ req[r].heard.by = r)

(* C7 as stated: an existing file with a supported extension that is not   *)
(* decodable is answered 500 'Audio conversion failed', and the event loop *)
(* is free again.                                                          *)
C7_Original ==
    \A r \in Reqs :
      (/\ Done(r)
       /\ req[r].found # NoFile
       /\ ExtOf(r) \in ListedExts
       /\ req[r].found.audio = Garbage)
      => /\ req[r].response.status = 500
         /\ Kind(r) = "Audio conversion failed: "
         /\ running # r

(* C7 amended: such a file is answered with status 500, 'Audio conversion  *)
(* failed' when its extension is not .wav and 'Transcription failed' when  *)
(* it is .wav (no conversion is attempted); the event loop is free again   *)
(* and can start the handler of a waiting request.                         *)
C7_Amended ==
    \A r \in Reqs :
      (/\ Done(r)
       /\ req[r].found # NoFile
       /\ ExtOf(r) \in ListedExts
       /\ req[r].found.audio = Garbage)
      => /\ req[r].response.status = 500
         /\ Kind(r) = IF ExtOf(r) = <<".", "wav">>
                      THEN "Transcription failed: "
                      ELSE "Audio conversion failed: "
         /\ ExtOf(r) # <<".", "wav">> => ~Has(r, "transcribe")
         /\ running # r
         /\ \A q \in Reqs :
               (running = NoReq /\ req[q].pc = "queued") => ENABLED Dispatch(q)

(* An undecodable .m4a was answered 500 'Audio conversion failed' and the  *)
(* handler of another request runs after it.                               *)
C7_Witness ==
    \E r \in Reqs, q \in Reqs :
      /\ Done(r)
      /\ req[r].filename = <<"bad", ".", "m4a">>
      /\ req[r].response.status = 500
      /\ Kind(r) = "Audio conversion failed: "
      /\ running = q
      /\ req[q].pc = "transcribe"

(* The file a request named: in the audio directory from the start, with a *)
(* supported extension.                                                    *)
Source(r) == Resolve(join(AUDIO_DIR, req[r].filename))

Valid(r) == Source(r) \in DOMAIN InitFiles /\ ExtOf(r) \in ListedExts

(* C8: of two requests in flight together that name different valid files, *)
(* each transcribes audio of its own source file, never content the other  *)
(* wrote, and answers with the text and language of its own file.          *)
C8_Isolation ==
    \A r \in Reqs : \A q \in req[r].peers :
      (/\ Valid(r) /\ Valid(q)
       /\ req[r].filename # req[q].filename
       /\ Has(r, "transcribe"))
      => /\ req[r].heard.by # q
         /\ req[r].heard.audio = InitFiles[Source(r)].audio
         /\ req[r].response.status = 200 =>
               req[r].response.body = <<InitFiles[Source(r)].audio,
                                        Language(InitFiles[Source(r)].audio)>>

(* C9: while a request is inside conversion or inference, the handler of   *)
(* another request that is waiting can be started.                         *)
C9_NonBlocking ==
    \A r \in Reqs : \A q \in Reqs \ {r} :
      (req[r].pc \in {"decode", "export", "transcribe"} /\ req[q].pc = "queued")
      => ENABLED Dispatch(q)

(* C10: every file a request creates or overwrites lies inside WAV_DIR,    *)
(* and no source file is modified.                                         *)
C10_WritesConfined ==
    /\ \A r \in Reqs : \A p \in req[r].wrote : Inside(p, WAV_DIR)
    /\ \A p \in DOMAIN InitFiles : files[p] = InitFiles[p]

====
